---- MODULE Spec2Model ----
(***************************************************************************)
(* A model of package env (env.go): typed environment variables, the       *)
(* registry VarSet that declares them under a prefix, VarSet.Parse that    *)
(* resolves them from a Getter, and the Errors aggregate.                  *)
(*                                                                         *)
(* Go strings are TLA+ strings; TLC evaluates Len, \o and SubSeq on them.  *)
(* The package leans on strconv and time for its conversions; those are    *)
(* modelled by what they compute (digit by digit), at the call sites.      *)
(*                                                                         *)
(* TLC's integers are 32 bits wide, so Go's int and time.Duration are      *)
(* modelled as two's-complement integers of IntBits and DurBits bits, with *)
(* the same asymmetric range and the same overflow tests, and the unit     *)
(* ladder of time.Duration (ns, us, ms, s) climbs by UnitStep = 10 with    *)
(* FracDigits = 1 decimal per rung where package time climbs by 1000 with  *)
(* 3 decimals per rung, so that minutes and hours are representable.       *)
(*                                                                         *)
(* The factories BindAddr, DialAddr and Path register a checked string     *)
(* through VarSet.Var exactly as StringRequired does, with the predicates  *)
(* isBindAddr, isDialAddr and isPath; they are left out of the model.      *)
(* checkedValue.Set and isNonEmpty follow the package's documentation.     *)
(***************************************************************************)
EXTENDS Integers, Sequences, FiniteSets, TLC

(* ------------------------------ bounds -------------------------------- *)

\* width of Go's int in the model
IntBits == 8
\* width of time.Duration in the model
DurBits == 24
\* most variables declared in one registry
MaxVars == 2
\* most entries of an Errors value handed to Errors.Error directly
MaxErrs == 5

(* ------------------------------ strings ------------------------------- *)

Char(s, i) == SubSeq(s, i, i)

RECURSIVE IndexFrom(_, _, _)
IndexFrom(c, s, i) ==
    IF i > Len(s) THEN 0
    ELSE IF Char(s, i) = c THEN i
    ELSE IndexFrom(c, s, i + 1)

\* strings.Index for a one-character needle: 1-based position, 0 when absent
IndexOf(c, s) == IndexFrom(c, s, 1)

Digits == "0123456789"

\* '0' <= c && c <= '9'
IsDigit(c) == c \in {"0", "1", "2", "3", "4", "5", "6", "7", "8", "9"}

\* c - '0', for a digit c
DigitVal(c) ==
    CASE c = "0" -> 0 [] c = "1" -> 1 [] c = "2" -> 2 [] c = "3" -> 3 [] c = "4" -> 4
      [] c = "5" -> 5 [] c = "6" -> 6 [] c = "7" -> 7 [] c = "8" -> 8 [] c = "9" -> 9

DigitChar(d) == Char(Digits, d + 1)

Lower == "abcdefghijklmnopqrstuvwxyz"
Upper == "ABCDEFGHIJKLMNOPQRSTUVWXYZ"

ToUpperChar(c) == IF IndexOf(c, Lower) > 0 THEN Char(Upper, IndexOf(c, Lower)) ELSE c

RECURSIVE ToUpper(_)
\* strings.ToUpper
ToUpper(s) ==
    IF Len(s) = 0 THEN ""
    ELSE ToUpperChar(Char(s, 1)) \o ToUpper(SubSeq(s, 2, Len(s)))

RECURSIVE ReplaceHyphens(_)
\* strings.Replace(s, "-", "_", -1)
ReplaceHyphens(s) ==
    IF Len(s) = 0 THEN ""
    ELSE (IF Char(s, 1) = "-" THEN "_" ELSE Char(s, 1))
         \o ReplaceHyphens(SubSeq(s, 2, Len(s)))

\* strconv.Quote, on the printable ASCII without quote and backslash that
\* the model's texts are made of
Quote(s) == "\"" \o s \o "\""

RECURSIVE FormatBits(_)
\* strconv's formatBits in base 10, for u >= 0
FormatBits(u) ==
    IF u < 10 THEN DigitChar(u)
    ELSE FormatBits(u \div 10) \o DigitChar(u % 10)

\* Itoa that loses the sign
ItoaUnsigned(n) == FormatBits(IF n < 0 THEN -n ELSE n)

\* strconv.Itoa; fmt's %d prints the same text
Itoa(n) == IF n < 0 THEN "-" \o FormatBits(-n) ELSE FormatBits(n)

(* ------------------------------- errors ------------------------------- *)

\* the nil error
NilError == [nil |-> TRUE, msg |-> ""]

\* errors.New / fmt.Errorf: an error value carrying its message
NewError(msg) == [nil |-> FALSE, msg |-> msg]

\* *strconv.NumError{Num, Err}; Err is strconv.ErrSyntax or strconv.ErrRange
NoNumError == [nil |-> TRUE, Num |-> "", Err |-> ""]
NumError(num, err) == [nil |-> FALSE, Num |-> num, Err |-> err]
ErrSyntax == "invalid syntax"
ErrRange == "value out of range"

(* ------------------------------ intValue ------------------------------ *)

\* Go's int in the model: IntBits wide, two's complement
IntMax == 2 ^ (IntBits - 1) - 1
IntMin == -(2 ^ (IntBits - 1))
UintMax == 2 ^ IntBits - 1

RECURSIVE ParseUintFrom(_, _, _)
\* strconv.ParseUint(s, 10, 0) from position i with n accumulated
ParseUintFrom(s, i, n) ==
    IF i > Len(s) THEN [n |-> n, err |-> ""]
    ELSE IF ~IsDigit(Char(s, i)) THEN [n |-> 0, err |-> ErrSyntax]
    ELSE IF n >= UintMax \div 10 + 1 THEN [n |-> UintMax, err |-> ErrRange]
    ELSE IF n * 10 + DigitVal(Char(s, i)) > UintMax THEN [n |-> UintMax, err |-> ErrRange]
    ELSE ParseUintFrom(s, i + 1, n * 10 + DigitVal(Char(s, i)))

ParseUint(s) ==
    IF Len(s) = 0 THEN [n |-> 0, err |-> ErrSyntax] ELSE ParseUintFrom(s, 1, 0)

\* strconv.ParseInt(s, 10, 0) once ParseUint has returned un for the digits:
\* out of range it returns the nearest bound
ParseIntOf(s, neg, un) ==
    IF un.err = ErrSyntax THEN [n |-> 0, err |-> NumError(s, ErrSyntax)]
    ELSE IF ~neg /\ un.n >= 2 ^ (IntBits - 1)
      THEN [n |-> 2 ^ (IntBits - 1) - 1, err |-> NumError(s, ErrRange)]
    ELSE IF neg /\ un.n > 2 ^ (IntBits - 1)
      THEN [n |-> -(2 ^ (IntBits - 1)), err |-> NumError(s, ErrRange)]
    ELSE [n |-> IF neg THEN -un.n ELSE un.n, err |-> NoNumError]

\* strconv.Atoi (strconv.ParseInt(s, 10, 0)): the value it returns and its
\* *NumError
Atoi(s) ==
    IF Len(s) = 0 THEN [n |-> 0, err |-> NumError(s, ErrSyntax)]
    ELSE IF Char(s, 1) \in {"+", "-"}
      THEN ParseIntOf(s, Char(s, 1) = "-", ParseUint(SubSeq(s, 2, Len(s))))
    ELSE ParseIntOf(s, FALSE, ParseUint(s))

\* the message intValue.Set and boolValue.Set build from a *strconv.NumError
NumErrorMessage(ne) ==
    IF ne.nil THEN NilError
    ELSE NewError("parsing " \o Quote(ne.Num) \o ": " \o ne.Err)

\* (*intValue).Set: the cell is assigned before the error is looked at
intValueAssign(r) == [cell |-> r.n, err |-> NumErrorMessage(r.err)]

\* Set that assigns only what parsed
intValueSetOnSuccess(v, x) ==
    IF Atoi(x).err.nil THEN intValueAssign(Atoi(x))
    ELSE [cell |-> v, err |-> NumErrorMessage(Atoi(x).err)]

intValueSet(v, x) == intValueAssign(Atoi(x))

\* (*intValue).String
intValueString(v) == Itoa(v)

(* ------------------------------ boolValue ----------------------------- *)

\* strconv.ParseBool
ParseBool(str) ==
    IF str \in {"1", "t", "T", "TRUE", "true", "True"}
      THEN [b |-> TRUE, err |-> NoNumError]
    ELSE IF str \in {"0", "f", "F", "FALSE", "false", "False"}
      THEN [b |-> FALSE, err |-> NoNumError]
    ELSE [b |-> FALSE, err |-> NumError(str, ErrSyntax)]

\* strconv.FormatBool
FormatBool(b) == IF b THEN "true" ELSE "false"

\* (*boolValue).Set
boolValueAssign(r) == [cell |-> r.b, err |-> NumErrorMessage(r.err)]
boolValueSet(v, x) == boolValueAssign(ParseBool(x))

\* (*boolValue).String
boolValueString(v) == FormatBool(v)

(* ---------------------------- durationValue --------------------------- *)

\* the factor between ns, us, ms and s (package time: 1000)
UnitStep == 10
\* the decimals one such factor takes (package time: 3)
FracDigits == 1

Nanosecond == 1
Microsecond == UnitStep * Nanosecond
Millisecond == UnitStep * Microsecond
Second == UnitStep * Millisecond
Minute == 60 * Second
Hour == 60 * Minute

\* 1<<63 in package time: the magnitude of the least Duration
DurTop == 2 ^ (DurBits - 1)
DurMax == DurTop - 1
DurMin == -DurTop

UnitNames == {"ns", "us", "µs", "μs", "ms", "s", "m", "h"}

\* time's unitMap
unitMap(u) ==
    CASE u = "ns" -> Nanosecond
      [] u \in {"us", "µs", "μs"} -> Microsecond
      [] u = "ms" -> Millisecond
      [] u = "s" -> Second
      [] u = "m" -> Minute
      [] u = "h" -> Hour

RECURSIVE leadingIntFrom(_, _, _)
\* time's leadingInt: the leading digits of s as a number, and the rest
leadingIntFrom(s, i, x) ==
    IF i > Len(s) \/ ~IsDigit(Char(s, i))
      THEN [x |-> x, rem |-> SubSeq(s, i, Len(s)), err |-> FALSE]
    ELSE IF x > DurTop \div 10 THEN [x |-> 0, rem |-> "", err |-> TRUE]
    ELSE IF x * 10 + DigitVal(Char(s, i)) > DurTop THEN [x |-> 0, rem |-> "", err |-> TRUE]
    ELSE leadingIntFrom(s, i + 1, x * 10 + DigitVal(Char(s, i)))

leadingInt(s) == leadingIntFrom(s, 1, 0)

RECURSIVE leadingFractionFrom(_, _, _, _, _)
\* time's leadingFraction: the leading digits of s as x / scale, and the rest;
\* digits past an overflow are consumed and dropped
leadingFractionFrom(s, i, x, scale, overflow) ==
    IF i > Len(s) \/ ~IsDigit(Char(s, i))
      THEN [x |-> x, scale |-> scale, rem |-> SubSeq(s, i, Len(s))]
    ELSE IF overflow THEN leadingFractionFrom(s, i + 1, x, scale, TRUE)
    ELSE IF x > (DurTop - 1) \div 10 THEN leadingFractionFrom(s, i + 1, x, scale, TRUE)
    ELSE IF x * 10 + DigitVal(Char(s, i)) > DurTop
      THEN leadingFractionFrom(s, i + 1, x, scale, TRUE)
    ELSE leadingFractionFrom(s, i + 1, x * 10 + DigitVal(Char(s, i)), scale * 10, FALSE)

leadingFraction(s) == leadingFractionFrom(s, 1, 0, 1, FALSE)

RECURSIVE unitEnd(_, _)
\* the length of the unit that starts s: up to the next '.' or digit
unitEnd(s, i) ==
    IF i >= Len(s) THEN i
    ELSE IF Char(s, i + 1) = "." \/ IsDigit(Char(s, i + 1)) THEN i
    ELSE unitEnd(s, i + 1)

\* time's quote, on the model's texts
InvalidDuration(orig) == NewError("time: invalid duration " \o Quote(orig))

\* uint64(float64(f) * (float64(unit) / scale)), f < scale
FractionOf(f, unit, scale) ==
    f * (unit \div scale) + (f * (unit % scale)) \div scale

RECURSIVE ParseDurationLoop(_, _, _)

\* one term of the duration, once its unit u is known: v digits before the
\* point, f / scale after it; rest is what follows the term
ParseDurationUnit(orig, d, v, f, scale, u, rest) ==
    IF u \notin UnitNames
      THEN [d |-> 0, err |-> NewError("time: unknown unit " \o Quote(u)
                                      \o " in duration " \o Quote(orig))]
    ELSE IF v > DurTop \div unitMap(u) THEN [d |-> 0, err |-> InvalidDuration(orig)]
    ELSE IF f > 0 /\ v * unitMap(u) + FractionOf(f, unitMap(u), scale) > DurTop
      THEN [d |-> 0, err |-> InvalidDuration(orig)]
    ELSE IF d + v * unitMap(u) + (IF f > 0 THEN FractionOf(f, unitMap(u), scale) ELSE 0)
            > DurTop
      THEN [d |-> 0, err |-> InvalidDuration(orig)]
    ELSE ParseDurationLoop(orig, rest,
            d + v * unitMap(u) + (IF f > 0 THEN FractionOf(f, unitMap(u), scale) ELSE 0))

\* one term, once its number is read: pre and post tell whether digits stood
\* before and after the point, s is what follows the number, i the length of
\* the unit that starts s
ParseDurationNumber(orig, d, v, f, scale, pre, post, s, i) ==
    IF ~pre /\ ~post THEN [d |-> 0, err |-> InvalidDuration(orig)]
    ELSE IF i = 0
      THEN [d |-> 0, err |-> NewError("time: missing unit in duration " \o Quote(orig))]
    ELSE ParseDurationUnit(orig, d, v, f, scale, SubSeq(s, 1, i), SubSeq(s, i + 1, Len(s)))

\* one term, once the digits after the point are read as lf; afterDot is
\* what followed the point
ParseDurationFraction(orig, d, v, pre, afterDot, lf) ==
    ParseDurationNumber(orig, d, v, lf.x, lf.scale, pre,
                        Len(lf.rem) # Len(afterDot), lf.rem, unitEnd(lf.rem, 0))

\* one term, once the digits before the point are read as li
ParseDurationInt(orig, s, d, li) ==
    IF li.err THEN [d |-> 0, err |-> InvalidDuration(orig)]
    ELSE IF Len(li.rem) > 0 /\ Char(li.rem, 1) = "."
      THEN ParseDurationFraction(orig, d, li.x, Len(li.rem) # Len(s),
                                 SubSeq(li.rem, 2, Len(li.rem)),
                                 leadingFraction(SubSeq(li.rem, 2, Len(li.rem))))
    ELSE ParseDurationNumber(orig, d, li.x, 0, 1, Len(li.rem) # Len(s), FALSE,
                             li.rem, unitEnd(li.rem, 0))

\* the loop of time.ParseDuration over the terms of s, d accumulated
ParseDurationLoop(orig, s, d) ==
    IF Len(s) = 0 THEN [d |-> d, err |-> NilError]
    ELSE IF ~(Char(s, 1) = "." \/ IsDigit(Char(s, 1)))
      THEN [d |-> 0, err |-> InvalidDuration(orig)]
    ELSE ParseDurationInt(orig, s, d, leadingInt(s))

\* the end of time.ParseDuration: the sign applied to what the loop returned
ParseDurationSign(orig, neg, r) ==
    IF ~r.err.nil THEN r
    ELSE IF neg THEN [d |-> -r.d, err |-> NilError]
    ELSE IF r.d > DurTop - 1 THEN [d |-> 0, err |-> InvalidDuration(orig)]
    ELSE r

\* time.ParseDuration once the sign is consumed
ParseDurationUnsigned(orig, neg, s) ==
    IF s = "0" THEN [d |-> 0, err |-> NilError]
    ELSE IF Len(s) = 0 THEN [d |-> 0, err |-> InvalidDuration(orig)]
    ELSE ParseDurationSign(orig, neg, ParseDurationLoop(orig, s, 0))

\* time.ParseDuration: [-+]?([0-9]*(\.[0-9]*)?[a-z]+)+, or "0"
ParseDuration(orig) ==
    IF Len(orig) > 0 /\ Char(orig, 1) \in {"+", "-"}
      THEN ParseDurationUnsigned(orig, Char(orig, 1) = "-", SubSeq(orig, 2, Len(orig)))
    ELSE ParseDurationUnsigned(orig, FALSE, orig)

RECURSIVE fmtFracFrom(_, _, _, _, _)
\* time's fmtFrac: the last prec decimals of v as ".ddd" without trailing
\* zeros, and v without them
fmtFracFrom(i, prec, v, print, out) ==
    IF i >= prec THEN [text |-> IF print THEN "." \o out ELSE out, v |-> v]
    ELSE IF print \/ v % 10 # 0
      THEN fmtFracFrom(i + 1, prec, v \div 10, TRUE, DigitChar(v % 10) \o out)
    ELSE fmtFracFrom(i + 1, prec, v \div 10, FALSE, out)

fmtFrac(v, prec) == fmtFracFrom(0, prec, v, FALSE, "")

\* time's fmtInt
fmtInt(v) == FormatBits(v)

\* Duration.String for u >= Second, once fmtFrac has split u into the
\* decimals fl.text and the whole seconds fl.v
FormatSeconds(fl) ==
    IF fl.v \div 60 = 0 THEN fmtInt(fl.v % 60) \o fl.text \o "s"
    ELSE IF (fl.v \div 60) \div 60 = 0
      THEN fmtInt((fl.v \div 60) % 60) \o "m" \o fmtInt(fl.v % 60) \o fl.text \o "s"
    ELSE fmtInt((fl.v \div 60) \div 60) \o "h" \o fmtInt((fl.v \div 60) % 60) \o "m"
         \o fmtInt(fl.v % 60) \o fl.text \o "s"

\* Duration.String for 0 < u < Second, in the unit of u's size
FormatSubSecond(fs, unit) == fmtInt(fs.v) \o fs.text \o unit

\* Duration.String for the magnitude u
FormatMagnitude(u) ==
    IF u = 0 THEN "0s"
    ELSE IF u < Microsecond THEN FormatSubSecond(fmtFrac(u, 0), "ns")
    ELSE IF u < Millisecond THEN FormatSubSecond(fmtFrac(u, FracDigits), "µs")
    ELSE IF u < Second THEN FormatSubSecond(fmtFrac(u, 2 * FracDigits), "ms")
    ELSE FormatSeconds(fmtFrac(u, 3 * FracDigits))

\* time.Duration.String
DurationString(d) ==
    IF d < 0 THEN "-" \o FormatMagnitude(-d) ELSE FormatMagnitude(d)

\* (*durationValue).Set
durationValueAssign(r) == [cell |-> r.d, err |-> r.err]
durationValueSet(v, x) == durationValueAssign(ParseDuration(x))

\* (*durationValue).String
durationValueString(v) == DurationString(v)

(* ----------------------------- stringValue ---------------------------- *)

\* Set that drops the text
stringValueSetDrops(v, x) == [cell |-> v, err |-> NilError]

\* (*stringValue).Set
stringValueSet(v, x) == [cell |-> x, err |-> NilError]

\* (*stringValue).String
stringValueString(v) == v

(* ----------------------------- checkedValue --------------------------- *)

\* isNonEmpty: an error when the text has zero length
isNonEmpty(x) == IF Len(x) = 0 THEN NewError("value is empty") ELSE NilError

\* the predicate a checkedValue holds, applied to the raw text
ApplyFn(fn, x) ==
    CASE fn = "isNonEmpty" -> isNonEmpty(x)

(* -------------------------------- Value ------------------------------- *)

\* A Value is [type, fn, p]: the concrete type behind the interface, the
\* predicate of the checkedValue around it ("none" when it is not wrapped),
\* and p, the storage cell the value points at.
newStringValue(p) == [type |-> "stringValue", fn |-> "none", p |-> p]
newIntValue(p) == [type |-> "intValue", fn |-> "none", p |-> p]
newBoolValue(p) == [type |-> "boolValue", fn |-> "none", p |-> p]
newDurationValue(p) == [type |-> "durationValue", fn |-> "none", p |-> p]

\* checkedValue{fn: fn, Value: inner}
checkedValue(fn, inner) == [inner EXCEPT !.fn = fn]

\* Set of the concrete type: the cell after the call and the error returned
baseSet(type, v, x) ==
    CASE type = "stringValue" -> stringValueSet(v, x)
      [] type = "intValue" -> intValueSet(v, x)
      [] type = "boolValue" -> boolValueSet(v, x)
      [] type = "durationValue" -> durationValueSet(v, x)

\* checkedValue.Set once the predicate has returned err
checkedValueDelegate(value, v, x, err) ==
    IF ~err.nil THEN [cell |-> v, err |-> err]
    ELSE baseSet(value.type, v, x)

\* checkedValue.Set: the predicate first, the wrapped Set only when it passes
checkedValueSet(value, v, x) == checkedValueDelegate(value, v, x, ApplyFn(value.fn, x))

\* Value.Set, dispatched on the dynamic type; v is the cell's content
ValueSet(value, v, x) ==
    IF value.fn = "none" THEN baseSet(value.type, v, x)
    ELSE checkedValueSet(value, v, x)

\* Value.String, dispatched on the dynamic type (checkedValue delegates)
ValueString(value, v) ==
    CASE value.type = "stringValue" -> stringValueString(v)
      [] value.type = "intValue" -> intValueString(v)
      [] value.type = "boolValue" -> boolValueString(v)
      [] value.type = "durationValue" -> durationValueString(v)

(* -------------------------------- state ------------------------------- *)

VARIABLES
    name,      \* VarSet.name
    prefix,    \* VarSet.prefix
    vars,      \* VarSet.vars: the Vars in registration order
    cells,     \* the storage cells the factories allocated, by pointer
    declared,  \* the name each factory call was given, in call order
    op,        \* the operation that produced this state
    ret,       \* what Parse returned, when op is Parse: nil, or Errors(errs)
    env,       \* the Getter that Parse was given
    gets,      \* the Get calls that Parse made, in call order
    sets,      \* the Set calls that Parse made, in call order
    visited,   \* the calls of fn that Visit made, when op is Visit
    val,       \* a Value on its own: its type and predicate
    vcell,     \* its storage cell
    vop,       \* the operation that produced this state of the value
    vx,        \* the text the last Set on it was given
    verr,      \* the error that Set returned
    vprev,     \* the cell before that Set
    me,        \* an Errors value
    summary    \* what me.Error() returned

regVars == <<name, prefix, vars, cells, declared, op, ret, env, gets, sets, visited>>
valVars == <<val, vcell, vop, vx, verr, vprev>>
errVars == <<me, summary>>
allVars == <<regVars, valVars, errVars>>

\* the nil error as Parse returns it, and ret when Parse was not the operation
NoReturn == [nil |-> TRUE, errs |-> <<>>]

\* a part of the state that the specification at hand does not use
NoValue == val = "-" /\ vcell = "-" /\ vop = "-" /\ vx = "-" /\ verr = NilError /\ vprev = "-"
NoErrors == me = <<>> /\ summary = "-"
NoRegistry ==
    /\ name = "-" /\ prefix = "-" /\ vars = <<>> /\ cells = <<>> /\ declared = <<>>
    /\ op = "-" /\ ret = NoReturn /\ env = <<>>
    /\ gets = <<>> /\ sets = <<>> /\ visited = <<>>

(* ------------------------------- VarSet ------------------------------- *)

\* the names given to NewVarSet
SetNames == {"", "my-app"}
\* the names given to the factories
DeclNames == {"PORT", "DEBUG"}
\* the usage strings given to the factories
Usages == {"usage"}
\* the texts a Getter returns
EnvTexts == {"", "1", "1s"}

\* NewVarSet's prefix
NewPrefix(n) == ReplaceHyphens(ToUpper(n))

\* NewVarSet(name): the state after construction
NewVarSet ==
    /\ name \in SetNames
    /\ prefix = NewPrefix(name)
    /\ vars = <<>>
    /\ cells = <<>>
    /\ declared = <<>>
    /\ op = "NewVarSet"
    /\ ret = NoReturn
    /\ env = <<>>
    /\ gets = <<>>
    /\ sets = <<>>
    /\ visited = <<>>

\* the name without the separator
VarNameUnseparated(pfx, n) == pfx \o n

\* VarSet.Var: the name the variable is registered under
VarName(pfx, n) == (IF pfx # "" THEN pfx \o "_" ELSE "") \o n

\* VarSet.Var(value, name, usage): vars with the new Var appended
VarSet_Var(value, n, usage) ==
    Append(vars, [Value |-> value, Name |-> VarName(prefix, n), Usage |-> usage])

\* what every factory does: allocate the cell p with the zero value, build
\* the Value over it, register it
Declare(value, zero, n, usage) ==
    /\ Len(vars) < MaxVars
    /\ vars' = VarSet_Var(value, n, usage)
    /\ cells' = Append(cells, zero)
    /\ declared' = Append(declared, n)
    /\ op' = "Var"
    /\ ret' = NoReturn
    /\ env' = <<>>
    /\ gets' = <<>>
    /\ sets' = <<>>
    /\ visited' = <<>>
    /\ UNCHANGED <<name, prefix>>

\* the pointer new(T) returns
NewCell == Len(cells) + 1

\* VarSet.String
VarSet_String ==
    \E n \in DeclNames, u \in Usages : Declare(newStringValue(NewCell), "", n, u)

\* VarSet.StringRequired
VarSet_StringRequired ==
    \E n \in DeclNames, u \in Usages :
        Declare(checkedValue("isNonEmpty", newStringValue(NewCell)), "", n, u)

\* VarSet.Int
VarSet_Int ==
    \E n \in DeclNames, u \in Usages : Declare(newIntValue(NewCell), 0, n, u)

\* VarSet.Bool
VarSet_Bool ==
    \E n \in DeclNames, u \in Usages : Declare(newBoolValue(NewCell), FALSE, n, u)

\* VarSet.Duration
VarSet_Duration ==
    \E n \in DeclNames, u \in Usages : Declare(newDurationValue(NewCell), 0, n, u)

\* a loop that stops one Var short
VisitLoopShort(vs, i, calls) == [k \in 1..(Len(vs) - 1) |-> [i |-> k, x |-> vs[k]]]

RECURSIVE VisitLoop(_, _, _)
\* the loop of VarSet.Visit from index i: the calls of fn it makes
VisitLoop(vs, i, calls) ==
    IF i > Len(vs) THEN calls
    ELSE VisitLoop(vs, i + 1, Append(calls, [i |-> i, x |-> vs[i]]))

\* VarSet.Visit(fn), fn an observer
Visit ==
    /\ visited' = VisitLoop(vars, 1, <<>>)
    /\ op' = "Visit"
    /\ ret' = NoReturn
    /\ env' = <<>>
    /\ gets' = <<>>
    /\ sets' = <<>>
    /\ UNCHANGED <<name, prefix, vars, cells, declared>>

(* -------------------------------- Parse ------------------------------- *)

\* what Getter.Get returns for a key that is not there
NotFound == [z |-> "", ok |-> FALSE]
Lookups == {[z |-> t, ok |-> TRUE] : t \in EnvTexts} \cup {NotFound}

\* the keys of the registry
Keys == {vars[i].Name : i \in 1..Len(vars)}

\* the Getters Parse is given, as far as Parse can tell them apart
Getters == [Keys -> Lookups]

RECURSIVE ParseLoop(_, _, _, _, _, _, _)

\* the iteration of Parse's loop for the Var x at index i once Get has found
\* the text z and x.Value.Set(z) has returned s
ParseFound(vs, g, i, cs, errs, gs, ss, x, z, s) ==
    ParseLoop(vs, g, i + 1,
              [cs EXCEPT ![x.Value.p] = s.cell],
              IF s.err.nil THEN errs
              ELSE Append(errs, NewError("could not set env " \o x.Name
                                         \o ": " \o s.err.msg)),
              gs,
              Append(ss, [i |-> i, x |-> z, err |-> s.err]))

\* an iteration that returns at the first missing key
ParseVarStops(vs, g, i, cs, errs, gs, ss, x, r) ==
    IF ~r.ok
      THEN [cells |-> cs, errs |-> Append(errs, NewError("missing env " \o x.Name)),
            gets |-> gs, sets |-> ss]
    ELSE ParseFound(vs, g, i, cs, errs, gs, ss, x, r.z,
                    ValueSet(x.Value, cs[x.Value.p], r.z))

\* an iteration that records the missing key and goes on to Set
ParseVarFallsThrough(vs, g, i, cs, errs, gs, ss, x, r) ==
    ParseFound(vs, g, i, cs,
               IF r.ok THEN errs ELSE Append(errs, NewError("missing env " \o x.Name)),
               gs, ss, x, r.z, ValueSet(x.Value, cs[x.Value.p], r.z))

\* the iteration of Parse's loop for the Var x at index i once Get has
\* returned r
ParseVar(vs, g, i, cs, errs, gs, ss, x, r) ==
    IF ~r.ok
      THEN ParseLoop(vs, g, i + 1, cs,
                     Append(errs, NewError("missing env " \o x.Name)), gs, ss)
    ELSE ParseFound(vs, g, i, cs, errs, gs, ss, x, r.z,
                    ValueSet(x.Value, cs[x.Value.p], r.z))

\* the loop of VarSet.Parse from index i: the cells, the errors recorded and
\* the Get and Set calls made when it ends
ParseLoop(vs, g, i, cs, errs, gs, ss) ==
    IF i > Len(vs) THEN [cells |-> cs, errs |-> errs, gets |-> gs, sets |-> ss]
    ELSE ParseVar(vs, g, i, cs, errs,
                  Append(gs, [i |-> i, key |-> vs[i].Name]), ss,
                  vs[i], g[vs[i].Name])

\* a return that wraps even no errors
ParseReturnAlways(errs) == [nil |-> FALSE, errs |-> errs]

\* VarSet.Parse's return value
ParseReturn(errs) ==
    IF Len(errs) = 0 THEN NoReturn
    ELSE [nil |-> FALSE, errs |-> errs]

\* an end that restores the cells when an error was recorded
ParseEndRollsBack(g, r) ==
    /\ cells' = IF Len(r.errs) = 0 THEN r.cells ELSE cells
    /\ ret' = ParseReturn(r.errs)
    /\ env' = g
    /\ gets' = r.gets
    /\ sets' = r.sets
    /\ op' = "Parse"
    /\ visited' = <<>>
    /\ UNCHANGED <<name, prefix, vars, declared>>

\* the end of VarSet.Parse(g), r what its loop produced
ParseEnd(g, r) ==
    /\ cells' = r.cells
    /\ ret' = ParseReturn(r.errs)
    /\ env' = g
    /\ gets' = r.gets
    /\ sets' = r.sets
    /\ op' = "Parse"
    /\ visited' = <<>>
    /\ UNCHANGED <<name, prefix, vars, declared>>

\* VarSet.Parse(g)
Parse ==
    \E g \in Getters : ParseEnd(g, ParseLoop(vars, g, 1, cells, <<>>, <<>>, <<>>))

Init == NewVarSet /\ NoValue /\ NoErrors

Next ==
    \/ VarSet_String /\ UNCHANGED <<valVars, errVars>>
    \/ VarSet_StringRequired /\ UNCHANGED <<valVars, errVars>>
    \/ VarSet_Int /\ UNCHANGED <<valVars, errVars>>
    \/ VarSet_Bool /\ UNCHANGED <<valVars, errVars>>
    \/ VarSet_Duration /\ UNCHANGED <<valVars, errVars>>
    \/ Visit /\ UNCHANGED <<valVars, errVars>>
    \/ Parse /\ UNCHANGED <<valVars, errVars>>

Spec == Init /\ [][Next]_allVars

(* ---------------------------- a Value alone --------------------------- *)

\* the strings, ints, bools and durations a value is constructed over
StringSamples == {"", "x", "old"}
IntSamples == IntMin..IntMax
DurationSamples ==
    (-(Millisecond + Microsecond)..(Second + Millisecond))
    \cup {sg * (h * Hour + m * Minute + sec * Second + f) :
            sg \in {-1, 1}, h \in {0, 1, 2}, m \in {0, 1, 59}, sec \in {0, 1, 59},
            f \in {0, 1, Microsecond, Second - 1}}
    \cup {DurMin, DurMin + 1, DurMax - 1, DurMax}

\* the texts given to Set directly
SetTexts ==
    {"", "x", "abc", "1", "-7", "+5", "12a", "300", "-300", "9999", "-9999",
     "true", "F", "yes", "1s", "1.5s", "1h2m3s", "-1.5ms", "3µs", "5", "1x", ".s",
     "9999h"}

\* newStringValue(x, p), newIntValue(x, p), newBoolValue(x, p),
\* newDurationValue(x, p), and the checkedValue StringRequired builds: a
\* Value over a cell that holds x (the caller keeps p and may store any x)
NewValue ==
    /\ \/ val = newStringValue(1) /\ vcell \in StringSamples
       \/ val = checkedValue("isNonEmpty", newStringValue(1)) /\ vcell \in StringSamples
       \/ val = newIntValue(1) /\ vcell \in IntSamples
       \/ val = newBoolValue(1) /\ vcell \in BOOLEAN
       \/ val = newDurationValue(1) /\ vcell \in {d \in DurationSamples : DurMin <= d /\ d <= DurMax}
    /\ vop = "new"
    /\ vx = ""
    /\ verr = NilError
    /\ vprev = vcell

\* the end of val.Set(x), r what Set produced
SetEnd(x, r) ==
    /\ vcell' = r.cell
    /\ verr' = r.err
    /\ vx' = x
    /\ vprev' = vcell
    /\ UNCHANGED val

\* val.Set(x)
Set ==
    /\ \E x \in SetTexts : SetEnd(x, ValueSet(val, vcell, x))
    /\ vop' = "Set"

\* val.Set(x) for the x that val.String() returned
SetRendered(x) == SetEnd(x, ValueSet(val, vcell, x))

\* val.Set(val.String())
SetString ==
    /\ SetRendered(ValueString(val, vcell))
    /\ vop' = "SetString"

ValueInit == NewValue /\ NoRegistry /\ NoErrors

ValueNext ==
    \/ Set /\ UNCHANGED <<regVars, errVars>>
    \/ SetString /\ UNCHANGED <<regVars, errVars>>

ValueSpec == ValueInit /\ [][ValueNext]_allVars

(* -------------------------------- Errors ------------------------------ *)

\* the entries of an Errors value: nil, or an error
ErrorEntries == {NilError, NewError("first"), NewError("second")}

RECURSIVE ErrorsLoop(_, _, _, _)
\* the loop of Errors.Error from index i: the count n of non-nil entries
\* and the message of the first of them
ErrorsLoop(es, i, n, msg) ==
    IF i > Len(es) THEN [n |-> n, msg |-> msg]
    ELSE IF es[i].nil THEN ErrorsLoop(es, i + 1, n, msg)
    ELSE ErrorsLoop(es, i + 1, n + 1, IF n = 0 THEN es[i].msg ELSE msg)

\* the switch of Errors.Error on the count r.n
ErrorsSummary(r) ==
    CASE r.n = 0 -> "(0 errors)"
      [] r.n = 1 -> r.msg
      [] r.n = 2 -> r.msg \o " (and 1 other error)"
      [] OTHER -> r.msg \o " (and " \o Itoa(r.n) \o " other errors)"

\* Errors.Error
ErrorsError(es) == ErrorsSummary(ErrorsLoop(es, 1, 0, ""))

\* append(me, e)
ErrorsAppend ==
    /\ Len(me) < MaxErrs
    /\ \E e \in ErrorEntries : me' = Append(me, e)
    /\ summary' = "-"

\* me.Error()
Error ==
    /\ summary' = ErrorsError(me)
    /\ UNCHANGED me

ErrorsInit == me = <<>> /\ summary = "-" /\ NoRegistry /\ NoValue

ErrorsNext ==
    \/ ErrorsAppend /\ UNCHANGED <<regVars, valVars>>
    \/ Error /\ UNCHANGED <<regVars, valVars>>

ErrorsSpec == ErrorsInit /\ [][ErrorsNext]_allVars

(* ------------------------------- claims ------------------------------- *)

\* whether sub occurs in text
Contains(text, sub) ==
    \E a \in 1..(Len(text) - Len(sub) + 1) : SubSeq(text, a, a + Len(sub) - 1) = sub

\* the zero value of a cell
ZeroOf(type) ==
    CASE type = "stringValue" -> ""
      [] type = "intValue" -> 0
      [] type = "boolValue" -> FALSE
      [] type = "durationValue" -> 0

\* in the state after a Parse: the source had no value for the k-th variable
Missing(k) == ~env[vars[k].Name].ok
\* the k-th variable's Set was called
SetCalled(k) == \E j \in 1..Len(sets) : sets[j].i = k
\* the k-th variable's Set was called and failed
SetFailed(k) == \E j \in 1..Len(sets) : sets[j].i = k /\ ~sets[j].err.nil
IsFailing(k) == Missing(k) \/ SetFailed(k)
Indices == [k \in 1..Len(vars) |-> k]
\* the failing variables, in registration order
Failing == SelectSeq(Indices, IsFailing)

\* C1: one Parse pass looks every registered variable up exactly once, in
\* registration order, whatever the outcome for the variables before it; the
\* pass does not end before the last variable was looked up.
C1_EveryVariableLookedUpInOrder ==
    op = "Parse" =>
        /\ Len(gets) = Len(vars)
        /\ \A k \in 1..Len(vars) : gets[k].i = k /\ gets[k].key = vars[k].Name
        /\ \A k \in 1..Len(vars) : ~Missing(k) => SetCalled(k)

\* a pass over two variables whose first failed to parse and whose second
\* was still looked up
C1_Witness ==
    /\ op = "Parse"
    /\ Len(vars) = 2
    /\ SetFailed(1)
    /\ gets[2].i = 2

\* C2: Parse returns nil exactly when no variable was missing and no Set
\* failed; otherwise the aggregate holds one error per failing variable and
\* none for the others, in registration order, each naming its variable.
C2_AggregateOnePerFailingVariable ==
    op = "Parse" =>
        /\ ret.nil <=> Len(Failing) = 0
        /\ ret.nil => ret.errs = <<>>
        /\ Len(ret.errs) = Len(Failing)
        /\ \A j \in 1..Len(ret.errs) :
              /\ ~ret.errs[j].nil
              /\ Contains(ret.errs[j].msg, vars[Failing[j]].Name)

\* a pass in which every key was missing, over two differently named
\* variables
C2_Witness ==
    /\ op = "Parse"
    /\ Len(vars) = 2
    /\ vars[1].Name # vars[2].Name
    /\ Missing(1) /\ Missing(2)
    /\ Len(ret.errs) = 2

\* C4: a variable whose key the source does not have is not Set, keeps the
\* cell it had before the pass, and gets a missing-variable error.
C4_MissingLeavesCell ==
    [][op' = "Parse" =>
         \A k \in 1..Len(vars') :
            ~env'[vars'[k].Name].ok =>
               /\ \A j \in 1..Len(sets') : sets'[j].i # k
               /\ cells'[vars'[k].Value.p] = cells[vars[k].Value.p]
               /\ \E j \in 1..Len(ret'.errs) :
                     ret'.errs[j] = NewError("missing env " \o vars'[k].Name)
      ]_allVars

\* a pass that found a key missing whose cell holds a value resolved by an
\* earlier pass
C4_Witness ==
    /\ op = "Parse"
    /\ \E k \in 1..Len(vars) :
          Missing(k) /\ cells[vars[k].Value.p] # ZeroOf(vars[k].Value.type)

\* C5: a checked value runs its predicate before it delegates: a rejected
\* text fails and leaves the cell as it was; an accepted text is handed to
\* the wrapped Set, whose result is the result.  For the required string,
\* "" fails and leaves the cell, and "x" succeeds and sets the cell to "x".
C5_CheckedValueChecksFirst ==
    (vop = "Set" /\ val.fn = "isNonEmpty") =>
        /\ Len(vx) = 0 => ~verr.nil /\ vcell = vprev
        /\ Len(vx) > 0 => verr.nil /\ vcell = vx
        /\ vx = "x" => vcell = "x"

\* a required string holding "old" that was given ""
C5_Witness ==
    /\ vop = "Set"
    /\ val.fn = "isNonEmpty"
    /\ vx = ""
    /\ vprev = "old"
    /\ ~verr.nil

\* whether Set rejected the text as out of range
OutOfRange(e) == Contains(e.msg, ErrRange)

\* C6 as claimed: a failed Set of an integer, boolean or duration value
\* leaves the zero value in the cell; the text value's Set never fails.
C6_FailedSetLeavesZero ==
    (vop = "Set" /\ val.fn = "none") =>
        /\ val.type = "stringValue" => verr.nil
        /\ ~verr.nil => vcell = ZeroOf(val.type)

\* C6 as amended: a failed Set overwrites the cell before the error is
\* returned: with the zero value, except that an integer text rejected as
\* out of range leaves the nearest bound of int; the text value's Set never
\* fails.
C6_FailedSetOverwrites ==
    (vop = "Set" /\ val.fn = "none") =>
        /\ val.type = "stringValue" => verr.nil
        /\ ~verr.nil =>
              vcell = IF val.type = "intValue" /\ OutOfRange(verr)
                      THEN (IF Char(vx, 1) = "-" THEN IntMin ELSE IntMax)
                      ELSE ZeroOf(val.type)

\* an integer holding a non-zero value that was given "abc"
C6_Witness ==
    /\ vop = "Set"
    /\ val.type = "intValue"
    /\ vx = "abc"
    /\ vprev # 0
    /\ vcell = 0
    /\ ~verr.nil

\* C7: every registered variable is named prefix + "_" + declared name, or
\* the declared name when the prefix is empty; no operation changes the
\* prefix or renames a registered variable.
C7_NamesQualifiedPrefixFixed ==
    /\ [](\A k \in 1..Len(vars) :
            vars[k].Name = IF prefix # "" THEN prefix \o "_" \o declared[k]
                           ELSE declared[k])
    /\ [][/\ prefix' = prefix
          /\ Len(vars') >= Len(vars)
          /\ \A k \in 1..Len(vars) : vars'[k].Name = vars[k].Name
         ]_allVars

\* a prefixed registry of two variables after a Parse pass
C7_Witness ==
    /\ op = "Parse"
    /\ prefix = "MY_APP"
    /\ Len(vars) = 2
    /\ vars[1].Name = "MY_APP_PORT"
    /\ vars[2].Name = "MY_APP_DEBUG"

\* C8: Visit calls fn once for each registered variable, in declaration
\* order, and leaves the sequence of variables as it was.
C8_VisitEachOnceInOrder ==
    [][op' = "Visit" =>
         /\ vars' = vars
         /\ Len(visited') = Len(vars)
         /\ \A k \in 1..Len(vars) : visited'[k].i = k /\ visited'[k].x = vars[k]
      ]_allVars

\* a Visit of two variables declared with the same name
C8_Witness ==
    /\ op = "Visit"
    /\ Len(vars) = 2
    /\ vars[1].Name = vars[2].Name
    /\ Len(visited) = 2

\* C9: for integer, boolean and duration values, Set of what String renders
\* succeeds and leaves the cell as it was.
C9_RoundTrip ==
    (vop = "SetString" /\ val.type \in {"intValue", "boolValue", "durationValue"}) =>
        /\ verr.nil
        /\ vcell = vprev

\* the round trip of the least duration
C9_Witness ==
    /\ vop = "SetString"
    /\ val.type = "durationValue"
    /\ vprev = DurMin
    /\ vcell = DurMin

\* what the texts of EnvTexts mean to the types that accept them
ParsedValue(type, z) ==
    CASE type = "stringValue" -> z
      [] type = "intValue" /\ z = "1" -> 1
      [] type = "boolValue" /\ z = "1" -> TRUE
      [] type = "durationValue" /\ z = "1s" -> Second

\* C10: a Parse that returns an aggregate does not roll back: every variable
\* that was found and Set without error holds its parsed value, and the
\* sequence of variables is as before the pass.
C10_NoRollback ==
    [][(op' = "Parse" /\ ~ret'.nil) =>
         /\ vars' = vars
         /\ \A k \in 1..Len(vars) :
               (env'[vars[k].Name].ok
                  /\ \E j \in 1..Len(sets') : sets'[j].i = k /\ sets'[j].err.nil) =>
                  cells'[vars[k].Value.p]
                     = ParsedValue(vars[k].Value.type, env'[vars[k].Name].z)
      ]_allVars

\* a pass that returned an aggregate and left a parsed value in a cell
C10_Witness ==
    /\ op = "Parse"
    /\ ~ret.nil
    /\ \E k \in 1..Len(vars) :
          /\ ~IsFailing(k)
          /\ cells[vars[k].Value.p] # ZeroOf(vars[k].Value.type)

\* the non-nil entries of me, in order
IsError(e) == ~e.nil
NonNil == SelectSeq(me, IsError)

\* C3: the summary of an aggregate with n non-nil entries is "(0 errors)"
\* for n = 0, the first non-nil entry's message for n = 1, that message and
\* " (and 1 other error)" for n = 2, and that message and " (and <n-1> other
\* errors)" for n > 2.
C3_SummaryCountsTheOthers ==
    summary # "-" =>
        summary = CASE Len(NonNil) = 0 -> "(0 errors)"
                    [] Len(NonNil) = 1 -> NonNil[1].msg
                    [] Len(NonNil) = 2 -> NonNil[1].msg \o " (and 1 other error)"
                    [] OTHER -> NonNil[1].msg \o " (and " \o Itoa(Len(NonNil) - 1)
                                \o " other errors)"

====
